---- MODULE Spec2Model ----
(***************************************************************************)
(* A model of the mu numeric library: the dense matrix type Mat            *)
(* (src/src/matrix.rs) and the complex number type Complex                 *)
(* (src/src/complex.rs).                                                   *)
(*                                                                         *)
(* f64 values are modelled exactly.  Matrix entries are integers (every    *)
(* sum, difference and product of small integers is exact in f64); the     *)
(* result of an f64 division is the exact quotient [num, den], or one of   *)
(* the IEEE-754 specials when the divisor is zero.  A Rust panic is the    *)
(* value Panic(msg) carrying the panic message of the source.              *)
(***************************************************************************)
EXTENDS Integers, Sequences, FiniteSets

VARIABLES
    A,       \* the Mat the caller holds (struct Mat: data, rows, cols)
    B,       \* the second Mat operand of a binary operator
    writes,  \* the number of element writes A[(i, j)] = v made so far
    op,      \* the last call: its name and its arguments
    res,     \* what the last call returned, or the panic it ended in
    x,       \* the Complex dividend
    y        \* the Complex divisor

vars == <<A, B, writes, op, res, x, y>>

(* ---------------------------------------------------------------------- *)
(* Bounds of the model.                                                    *)
(* ---------------------------------------------------------------------- *)
\* Largest number of rows or columns of an operand.
MaxDim == 3
\* Largest number of element writes m[(i,j)] = v applied to an operand.
MaxWrites == 1
\* Largest exponent handed to pow.
MaxExp == 5

\* Values written into matrices and used as fill values and scalars.
Vals == {-1, 0, 2}

(* ---------------------------------------------------------------------- *)
(* Values.                                                                 *)
(* ---------------------------------------------------------------------- *)
Panic(msg) == [tag |-> "panic", msg |-> msg]
Mat(data, rows, cols) == [tag |-> "mat", data |-> data, rows |-> rows, cols |-> cols]
Num(v) == [tag |-> "num", v |-> v]
Unit == [tag |-> "unit"]
IsPanic(r) == r.tag = "panic"

RECURSIVE sum(_)
\* Iterator::sum over a sequence of f64.
sum(s) == IF Len(s) = 0 THEN 0 ELSE s[1] + sum(Tail(s))

(* ---------------------------------------------------------------------- *)
(* Indexing: impl Index / IndexMut for Mat.                                *)
(* ---------------------------------------------------------------------- *)
\* &self.data[i * self.cols + j]: the only check is Vec's own bounds check.
index(self, i, j) ==
    LET k == i * self.cols + j
    IN  IF k < Len(self.data) THEN Num(self.data[k + 1])
        ELSE Panic("index out of bounds")

\* &mut self.data[i * self.cols + j] followed by the assignment of value.
index_mut(self, i, j, value) ==
    LET k == i * self.cols + j
    IN  IF k < Len(self.data)
        THEN Mat([self.data EXCEPT ![k + 1] = value], self.rows, self.cols)
        ELSE Panic("index out of bounds")

\* self[(i, j)] read inside a loop of the library.
at(self, i, j) == index(self, i, j).v

\* for i in 0..m.rows { for j in 0..m.cols { m[(i, j)] = f[i, j] } }
\* Every (i, j) of the loop has i < rows and j < cols, so each element of the
\* buffer is written exactly once, at i * cols + j.
assign_all(m, f) ==
    Mat([k \in 1..(m.rows * m.cols) |-> f[(k - 1) \div m.cols, (k - 1) % m.cols]],
        m.rows, m.cols)

\* The index pairs the loops over a matrix of this shape visit.
Rows(m) == 0..(m.rows - 1)
Cols(m) == 0..(m.cols - 1)

(* ---------------------------------------------------------------------- *)
(* Constructors.                                                           *)
(* ---------------------------------------------------------------------- *)
new(rows, cols) ==
    IF ~(rows # 0 /\ cols # 0) THEN Panic("Can't create an empty matrix!")
    ELSE Mat([k \in 1..(rows * cols) |-> 0], rows, cols)

from_vec(rows, cols, data) ==
    IF rows * cols # Len(data) THEN Panic("Data length must match matrix size.")
    ELSE Mat(data, rows, cols)

filled(rows, cols, value) == Mat([k \in 1..(rows * cols) |-> value], rows, cols)

zeros(rows, cols) == new(rows, cols)

ones(rows, cols) == filled(rows, cols, 1)

eye(size) ==
    LET m == zeros(size, size)
    IN  IF IsPanic(m) THEN m
        ELSE assign_all(m, [i \in Rows(m), j \in Cols(m) |-> IF i = j THEN 1 ELSE at(m, i, j)])

(* ---------------------------------------------------------------------- *)
(* Structural operations.                                                  *)
(* ---------------------------------------------------------------------- *)
shape(self) == <<self.rows, self.cols>>

\* A faulty transpose: the dimensions swapped, the buffer left in its old order.
transpose_keep_layout(self) ==
    LET m == zeros(self.cols, self.rows)
    IN  IF IsPanic(m) THEN m
        ELSE Mat(self.data, self.cols, self.rows)

transpose(self) ==
    LET m == zeros(self.cols, self.rows)
    IN  IF IsPanic(m) THEN m
        ELSE assign_all(m, [j \in Rows(m), i \in Cols(m) |-> at(self, i, j)])

trace(self) ==
    IF self.rows # self.cols THEN Panic("Matrix must be square.")
    ELSE Num(sum([k \in 1..self.rows |-> at(self, k - 1, k - 1)]))

sub_matrix(self, row, col) ==
    IF ~(row < self.rows) THEN Panic("Row index out of bounds.")
    ELSE IF ~(col < self.cols) THEN Panic("Column index out of bounds.")
    ELSE IF ~(self.cols > 1 /\ self.rows > 1) THEN Panic("Matrix must be at least 2x2.")
    ELSE LET m == zeros(self.rows - 1, self.cols - 1)
         IN  IF IsPanic(m) THEN m
             ELSE assign_all(m, [i \in Rows(m), j \in Cols(m) |->
                      at(self, IF i < row THEN i ELSE i + 1,
                               IF j < col THEN j ELSE j + 1)])

(* ---------------------------------------------------------------------- *)
(* Operators.                                                              *)
(* ---------------------------------------------------------------------- *)
add(self, other) ==
    IF self.rows # other.rows \/ self.cols # other.cols
    THEN Panic("Matrices must have the same dimensions")
    ELSE LET result == zeros(self.rows, self.cols)
         IN  IF IsPanic(result) THEN result
             ELSE assign_all(result, [i \in Rows(result), j \in Cols(result) |->
                      at(self, i, j) + at(other, i, j)])

sub(self, other) ==
    IF self.rows # other.rows \/ self.cols # other.cols
    THEN Panic("Matrices must have the same dimensions")
    ELSE LET result == zeros(self.rows, self.cols)
         IN  IF IsPanic(result) THEN result
             ELSE assign_all(result, [i \in Rows(result), j \in Cols(result) |->
                      at(self, i, j) - at(other, i, j)])

\* A faulty product: the last term of every inner sum is left out.
mul_short_sum(self, other) ==
    IF self.cols # other.rows
    THEN Panic("Matrix dimensions not compatible for multiplication")
    ELSE LET result == zeros(self.rows, other.cols)
         IN  IF IsPanic(result) THEN result
             ELSE assign_all(result, [i \in Rows(result), j \in Cols(result) |->
                      sum([k \in 1..(self.cols - 1) |->
                              at(self, i, k - 1) * at(other, k - 1, j)])])

\* impl Mul for &Mat
mul(self, other) ==
    IF self.cols # other.rows
    THEN Panic("Matrix dimensions not compatible for multiplication")
    ELSE LET result == zeros(self.rows, other.cols)
         IN  IF IsPanic(result) THEN result
             ELSE assign_all(result, [i \in Rows(result), j \in Cols(result) |->
                      sum([k \in 1..self.cols |->
                              at(self, i, k - 1) * at(other, k - 1, j)])])

dot(self, other) ==
    IF self.cols # other.rows THEN Panic("Matrix dimensions not compatible.")
    ELSE mul(self, other)

\* impl Mul<f64> for &Mat
mul_scalar(self, scalar) ==
    Mat([k \in 1..Len(self.data) |-> self.data[k] * scalar], self.rows, self.cols)

\* impl Mul<&Mat> for f64
scalar_mul(scalar, m) ==
    Mat([k \in 1..Len(m.data) |-> m.data[k] * scalar], m.rows, m.cols)

\* impl Neg for &Mat
neg(self) ==
    Mat([k \in 1..Len(self.data) |-> -self.data[k]], self.rows, self.cols)

\* The exact quotient a / b of two f64 values, or the IEEE-754 result of a
\* division by zero: NaN for 0/0, an infinity with the sign of a otherwise
\* (every zero divisor of the library is a sum of squares, hence +0.0).
fdiv(a, b) ==
    IF b # 0 THEN [kind |-> "finite", num |-> a, den |-> b]
    ELSE IF a = 0 THEN [kind |-> "NaN", num |-> 0, den |-> 0]
    ELSE IF a > 0 THEN [kind |-> "inf", num |-> 1, den |-> 0]
    ELSE [kind |-> "-inf", num |-> -1, den |-> 0]

\* impl Div<f64> for &Mat
div(self, scalar) ==
    IF ~(scalar # 0) THEN Panic("Cannot divide by zero")
    ELSE Mat([k \in 1..Len(self.data) |-> fdiv(self.data[k], scalar)],
             self.rows, self.cols)

(* ---------------------------------------------------------------------- *)
(* Determinant, power, cofactor, adjugate, inverse.                        *)
(* ---------------------------------------------------------------------- *)
RECURSIVE det(_)
\* A faulty determinant: the expansion along row 0 with every sign +1.
det_unsigned(self) ==
    IF self.rows # self.cols THEN Panic("Matrix must be square!")
    ELSE CASE self.rows = 1 -> Num(at(self, 0, 0))
           [] self.rows = 2 ->
                Num(at(self, 0, 0) * at(self, 1, 1) - at(self, 0, 1) * at(self, 1, 0))
           [] OTHER ->
                Num(sum([k \in 1..self.cols |->
                        LET i == k - 1
                        IN  at(self, 0, i) * det(sub_matrix(self, 0, i)).v]))

det(self) ==
    IF self.rows # self.cols THEN Panic("Matrix must be square!")
    ELSE CASE self.rows = 1 -> Num(at(self, 0, 0))
           [] self.rows = 2 ->
                Num(at(self, 0, 0) * at(self, 1, 1) - at(self, 0, 1) * at(self, 1, 0))
           [] OTHER ->
                Num(sum([k \in 1..self.cols |->
                        LET i == k - 1
                            sign == IF i % 2 = 0 THEN 1 ELSE -1
                        IN  sign * at(self, 0, i) * det(sub_matrix(self, 0, i)).v]))

RECURSIVE pow(_, _)
\* A faulty power: repeated squaring without the extra factor of an odd exponent.
pow_even_only(self, n) ==
    IF self.rows # self.cols THEN Panic("Matrix must be square!")
    ELSE CASE n = 0 -> eye(self.rows)
           [] n = 1 -> self
           [] OTHER ->
                LET half == pow(self, n \div 2)
                IN  IF IsPanic(half) THEN half ELSE mul(half, half)

pow(self, n) ==
    IF self.rows # self.cols THEN Panic("Matrix must be square!")
    ELSE CASE n = 0 -> eye(self.rows)
           [] n = 1 -> self
           [] OTHER ->
                LET half == pow(self, n \div 2)
                    result == mul(half, half)
                IN  IF IsPanic(half) THEN half
                    ELSE IF IsPanic(result) THEN result
                    ELSE IF n % 2 = 0 THEN result
                    ELSE mul(result, self)

\* The first call of the loop, sub_matrix(0, 0), panics exactly when every
\* call of the loop does (rows <= 1 or cols <= 1); no call panics otherwise.
cofactor(self) ==
    IF self.rows # self.cols THEN Panic("Matrix must be square!")
    ELSE LET adj == zeros(self.rows, self.cols)
         IN  IF IsPanic(adj) THEN adj
             ELSE IF IsPanic(sub_matrix(self, 0, 0)) THEN sub_matrix(self, 0, 0)
             ELSE assign_all(adj, [i \in Rows(adj), j \in Cols(adj) |->
                      LET sub_mat == sub_matrix(self, i, j)
                          sign == IF (i + j) % 2 = 0 THEN 1 ELSE -1
                      IN  sign * det(sub_mat).v])

adjugate(self) ==
    LET c == cofactor(self)
    IN  IF IsPanic(c) THEN c ELSE transpose(c)

\* A faulty inverse: the adjugate is built before the determinant is tested.
inverse_adjugate_first(self) ==
    LET d == det(self)
        adj == adjugate(self)
    IN  IF IsPanic(d) THEN d
        ELSE IF IsPanic(adj) THEN adj
        ELSE IF d.v = 0 THEN [tag |-> "None"]
        ELSE LET q == div(adj, d.v)
             IN  IF IsPanic(q) THEN q ELSE [tag |-> "Some", m |-> q]

inverse(self) ==
    LET d == det(self)
    IN  IF IsPanic(d) THEN d
        ELSE IF d.v = 0 THEN [tag |-> "None"]
        ELSE LET adj == adjugate(self)
             IN  IF IsPanic(adj) THEN adj
                 ELSE LET q == div(adj, d.v)
                      IN  IF IsPanic(q) THEN q ELSE [tag |-> "Some", m |-> q]

(* ---------------------------------------------------------------------- *)
(* Complex numbers.                                                        *)
(* ---------------------------------------------------------------------- *)
Complex(re, im) == [tag |-> "complex", re |-> re, im |-> im]

\* impl Div for Complex
complex_div(self, other) ==
    LET denominator == other.re * other.re + other.im * other.im
        re == fdiv(self.re * other.re + self.im * other.im, denominator)
        im == fdiv(self.im * other.re - self.re * other.im, denominator)
    IN  Complex(re, im)

\* impl Div<Complex> for f64
f64_div_complex(self, other) ==
    LET denominator == other.re * other.re + other.im * other.im
        re == fdiv(self * other.re, denominator)
        im == fdiv((-self) * other.im, denominator)
    IN  Complex(re, im)

(* ---------------------------------------------------------------------- *)
(* Inputs.                                                                 *)
(* ---------------------------------------------------------------------- *)
\* vec![1.0, 2.0, ..., n]
Ramp(n) == [k \in 1..n |-> k]

\* The buffers the tests and main hand to from_vec, and a ramp of each length.
DataPool ==
    { <<1, 2, 3, 4>>, <<4, 7, 2, 6>>, <<1, -2, 3, -4>>,
      <<7, 8, 9, 10, 11, 12>>, <<1, 2, 3, 3, 1, 2, 5, 6, 1>> }
    \cup { Ramp(n) : n \in 1..(MaxDim * MaxDim) }

\* Every call of a constructor with the given numbers of rows and columns.
ConstructorCalls(dims) ==
    UNION { {new(r, c), zeros(r, c), ones(r, c)}
            \cup { filled(r, c, v) : v \in Vals }
            \cup { from_vec(r, c, d) : d \in DataPool }
            \cup (IF r = c THEN {eye(r)} ELSE {}) : r \in dims, c \in dims }

\* The matrices a caller can hold after one successful constructor call.
Operands == { m \in ConstructorCalls(1..MaxDim) : m.tag = "mat" }
SquareOperands == { m \in Operands : m.rows = m.cols }

ComplexVals == { Complex(re, im) : re \in Vals, im \in Vals }

(* ---------------------------------------------------------------------- *)
(* Calls of the library: one action per operation.                         *)
(* ---------------------------------------------------------------------- *)
\* A constructor call; the caller keeps the matrix when one is returned.
Construct(call, r) ==
    /\ op' = call
    /\ res' = r
    /\ A' = IF r.tag = "mat" THEN r ELSE A
    /\ writes' = 0
    /\ UNCHANGED <<B, x, y>>

Call_new(rows, cols) ==
    Construct([name |-> "new", rows |-> rows, cols |-> cols], new(rows, cols))

Call_zeros(rows, cols) ==
    Construct([name |-> "zeros", rows |-> rows, cols |-> cols], zeros(rows, cols))

Call_filled(rows, cols, value) ==
    Construct([name |-> "filled", rows |-> rows, cols |-> cols, value |-> value],
              filled(rows, cols, value))

Call_ones(rows, cols) ==
    Construct([name |-> "ones", rows |-> rows, cols |-> cols], ones(rows, cols))

Call_eye(size) ==
    Construct([name |-> "eye", rows |-> size, cols |-> size], eye(size))

Call_from_vec(rows, cols, data) ==
    Construct([name |-> "from_vec", rows |-> rows, cols |-> cols, data |-> data],
              from_vec(rows, cols, data))

\* A call that leaves the operands alone and returns r.
Pure(call, r) ==
    /\ op' = call
    /\ res' = r
    /\ UNCHANGED <<A, B, writes, x, y>>

\* let v = A[(i, j)];
Call_index(i, j) == Pure([name |-> "index", i |-> i, j |-> j], index(A, i, j))

\* A[(i, j)] = value; recorded as call.
Write(call, i, j, value) ==
    LET r == index_mut(A, i, j, value)
    IN  /\ writes < MaxWrites
        /\ writes' = writes + 1
        /\ op' = call
        /\ A' = IF IsPanic(r) THEN A ELSE r
        /\ res' = IF IsPanic(r) THEN r ELSE Unit
        /\ UNCHANGED <<B, x, y>>

\* An element write whose index pair and value are observed.
Call_index_mut(i, j, value) ==
    Write([name |-> "index_mut", i |-> i, j |-> j, value |-> value], i, j, value)

\* An element write that prepares the operand of the calls that follow: the
\* calls leave the operand alone, so writes after a call reach no other
\* operand than writes before it.
Edit(i, j, value) ==
    /\ op.name \in {"init", "index_mut"}
    /\ Write([name |-> "index_mut"], i, j, value)

Call_transpose == Pure([name |-> "transpose"], transpose(A))
Call_neg == Pure([name |-> "neg"], neg(A))
Call_mul_scalar(k) == Pure([name |-> "mul_scalar", scalar |-> k], mul_scalar(A, k))
Call_scalar_mul(k) == Pure([name |-> "scalar_mul", scalar |-> k], scalar_mul(k, A))
Call_div(k) == Pure([name |-> "div", scalar |-> k], div(A, k))
Call_sub_matrix(row, col) ==
    Pure([name |-> "sub_matrix", row |-> row, col |-> col], sub_matrix(A, row, col))
Call_add == Pure([name |-> "add"], add(A, B))
Call_sub == Pure([name |-> "sub"], sub(A, B))
Call_mul == Pure([name |-> "mul"], mul(A, B))
Call_dot == Pure([name |-> "dot"], dot(A, B))
Call_det == Pure([name |-> "det"], det(A))
Call_pow(n) == Pure([name |-> "pow", n |-> n], pow(A, n))
Call_cofactor == Pure([name |-> "cofactor"], cofactor(A))
Call_adjugate == Pure([name |-> "adjugate"], adjugate(A))
Call_inverse == Pure([name |-> "inverse"], inverse(A))

\* (&A * &B).transpose()
Call_transpose_of_mul ==
    LET p == mul(A, B)
    IN  Pure([name |-> "transpose_of_mul"], IF IsPanic(p) THEN p ELSE transpose(p))

\* x / y
Call_complex_div == Pure([name |-> "complex_div"], complex_div(x, y))

\* k / y
Call_f64_div_complex(k) ==
    Pure([name |-> "f64_div_complex", scalar |-> k], f64_div_complex(k, y))

(* ---------------------------------------------------------------------- *)
(* Specifications.                                                         *)
(* ---------------------------------------------------------------------- *)
NoMat == Mat(<<0>>, 1, 1)
NoComplex == Complex(0, 0)
Fresh == /\ writes = 0
         /\ op = [name |-> "init"]
         /\ res = Unit

\* Constructors, called with every shape from 0 x 0 on, and the operators that
\* return a matrix of their operand's shape applied to what they return.
InitCtor == /\ A = NoMat /\ B = NoMat /\ x = NoComplex /\ y = NoComplex /\ Fresh
NextCtor ==
    \/ \E r \in 0..MaxDim, c \in 0..MaxDim : Call_new(r, c)
    \/ \E r \in 0..MaxDim, c \in 0..MaxDim : Call_zeros(r, c)
    \/ \E r \in 0..MaxDim, c \in 0..MaxDim, v \in Vals : Call_filled(r, c, v)
    \/ \E r \in 0..MaxDim, c \in 0..MaxDim : Call_ones(r, c)
    \/ \E n \in 0..MaxDim : Call_eye(n)
    \/ \E r \in 0..MaxDim, c \in 0..MaxDim, d \in DataPool \cup {<<>>} :
            Call_from_vec(r, c, d)
    \/ Call_transpose
    \/ Call_neg
    \/ \E k \in Vals : Call_mul_scalar(k)
    \/ \E k \in Vals : Call_scalar_mul(k)
    \/ \E k \in Vals : Call_div(k)
    \/ \E r \in 0..MaxDim, c \in 0..MaxDim : Call_sub_matrix(r, c)
    \/ Call_cofactor
    \/ Call_adjugate
SpecCtor == InitCtor /\ [][NextCtor]_vars

\* Element reads and writes of one matrix, at every index pair up to MaxDim.
InitIndex == /\ A \in Operands /\ B = NoMat /\ x = NoComplex /\ y = NoComplex /\ Fresh
NextIndex ==
    \/ \E i \in 0..MaxDim, j \in 0..MaxDim : Call_index(i, j)
    \/ \E i \in 0..MaxDim, j \in 0..MaxDim, v \in Vals : Call_index_mut(i, j, v)
SpecIndex == InitIndex /\ [][NextIndex]_vars

\* Two operands and the products of them.
InitMul == /\ A \in Operands /\ B \in Operands
           /\ x = NoComplex /\ y = NoComplex /\ Fresh
NextMul ==
    \/ Call_add
    \/ Call_sub
    \/ Call_mul
    \/ Call_dot
    \/ Call_transpose
    \/ Call_transpose_of_mul
SpecMul == InitMul /\ [][NextMul]_vars

\* One square matrix, edited element by element, and its determinant and
\* inverse.
InitDet == /\ A \in SquareOperands /\ B = NoMat
           /\ x = NoComplex /\ y = NoComplex /\ Fresh
NextDet ==
    \/ \E i \in 0..MaxDim, j \in 0..MaxDim, v \in Vals : Edit(i, j, v)
    \/ Call_det
    \/ Call_inverse
SpecDet == InitDet /\ [][NextDet]_vars

\* One square matrix and its powers.
NextPow == \E n \in 0..MaxExp : Call_pow(n)
SpecPow == InitDet /\ [][NextPow]_vars

\* Two complex numbers and their quotients.
InitComplex == /\ A = NoMat /\ B = NoMat /\ x \in ComplexVals /\ y \in ComplexVals
               /\ Fresh
NextComplex ==
    \/ Call_complex_div
    \/ \E k \in Vals : Call_f64_div_complex(k)
SpecComplex == InitComplex /\ [][NextComplex]_vars

(* ---------------------------------------------------------------------- *)
(* Reference definitions used by the properties.                           *)
(* ---------------------------------------------------------------------- *)
\* The kind of failure a panic message of the library stands for.
InvalidShape(r) == IsPanic(r) /\ r.msg = "Can't create an empty matrix!"
ShapeMismatch(r) ==
    /\ IsPanic(r)
    /\ r.msg \in { "Matrix dimensions not compatible for multiplication",
                   "Matrix dimensions not compatible.",
                   "Matrices must have the same dimensions",
                   "Data length must match matrix size." }
IndexOutOfBounds(r) == IsPanic(r) /\ r.msg = "index out of bounds"
DivisionByZero(r) == IsPanic(r) /\ r.msg = "Cannot divide by zero"

\* The data model's invariant of a Matrix value.
WellFormed(m) ==
    /\ m.tag = "mat"
    /\ m.rows >= 1
    /\ m.cols >= 1
    /\ Len(m.data) = m.rows * m.cols

\* Element (i, j), 0-indexed, of a well-formed matrix: data[i*cols + j].
Elem(m, i, j) == m.data[i * m.cols + j + 1]

RECURSIVE SeqSum(_)
SeqSum(s) == IF s = <<>> THEN 0 ELSE s[1] + SeqSum(Tail(s))

RECURSIVE SeqProduct(_)
SeqProduct(s) == IF s = <<>> THEN 1 ELSE s[1] * SeqProduct(Tail(s))

RECURSIVE SetToSeq(_)
SetToSeq(S) ==
    IF S = {} THEN <<>>
    ELSE LET e == CHOOSE e \in S : TRUE IN <<e>> \o SetToSeq(S \ {e})

\* +1 for an even permutation, -1 for an odd one.
Signature(f) ==
    LET n == Len(f)
        inversions == Cardinality({ p \in (1..n) \X (1..n) :
                                      p[1] < p[2] /\ f[p[1]] > f[p[2]] })
    IN  IF inversions % 2 = 0 THEN 1 ELSE -1

\* The permutations of 1..n, listed, each with its signature.
Permutations ==
    [n \in 1..(MaxDim + 1) |->
        LET perms == SetToSeq({ f \in [1..n -> 1..n] :
                                  \A a, b \in 1..n : a # b => f[a] # f[b] })
        IN  [p \in 1..Len(perms) |-> [perm |-> perms[p], sign |-> Signature(perms[p])]]]

\* The determinant of a square matrix by the permutation (Leibniz) formula.
LeibnizDet(m) ==
    LET n == m.rows
        perms == Permutations[n]
    IN  SeqSum([p \in 1..Len(perms) |->
            perms[p].sign
              * SeqProduct([r \in 1..n |-> Elem(m, r - 1, perms[p].perm[r] - 1)])])

\* Element (i, j) of the product of a and b, from the definition.
ProductElem(a, b, i, j) ==
    SeqSum([k \in 1..a.cols |-> Elem(a, i, k - 1) * Elem(b, k - 1, j)])

\* The n-fold product of m with itself, multiplied out one factor at a time.
RECURSIVE RepeatedProduct(_, _)
RepeatedProduct(m, n) ==
    IF n = 0 THEN eye(m.rows) ELSE mul(RepeatedProduct(m, n - 1), m)

IsConstructorCall == op.name \in {"new", "zeros", "filled", "ones", "eye", "from_vec"}

(* ---------------------------------------------------------------------- *)
(* Properties.                                                             *)
(* ---------------------------------------------------------------------- *)

\* C1: every matrix a constructor returns, and every matrix an operator
\* returns from such a matrix, has rows >= 1, cols >= 1 and
\* data.length = rows * cols.  (Fails: filled, ones and from_vec return
\* matrices with no rows or no columns.)
C1_EveryMatrixWellFormed ==
    /\ WellFormed(A)
    /\ res.tag = "mat" => WellFormed(res)

\* C3: zeros, filled, ones and eye fail with InvalidShape whenever rows = 0 or
\* cols = 0, and return no matrix.  (Fails: filled and ones return one.)
C3_ZeroShapeRejected ==
    (/\ op.name \in {"zeros", "filled", "ones", "eye"}
     /\ (op.rows = 0 \/ op.cols = 0))
    => InvalidShape(res)

\* C2: a read or a write at (i, j) with i >= rows or j >= cols fails with
\* IndexOutOfBounds and leaves the matrix alone; one with i < rows and
\* j < cols reads or writes exactly data[i*cols + j].  (Fails: only the flat
\* index i*cols + j is checked.)
C2_IndexChecked ==
    [][ /\ op'.name = "index" =>
            /\ A' = A
            /\ IF op'.i >= A.rows \/ op'.j >= A.cols
               THEN IndexOutOfBounds(res')
               ELSE res' = Num(A.data[op'.i * A.cols + op'.j + 1])
        /\ op'.name = "index_mut" =>
            IF op'.i >= A.rows \/ op'.j >= A.cols
            THEN IndexOutOfBounds(res') /\ A' = A
            ELSE /\ res' = Unit
                 /\ A' = [A EXCEPT !.data[op'.i * A.cols + op'.j + 1] = op'.value]
      ]_vars

\* C4: if A.cols = B.rows, multiply(A, B) and dot(A, B) return the matrix of
\* shape (A.rows, B.cols) whose entry (i, j) is the sum over k of
\* A[i][k] * B[k][j]; otherwise both fail with ShapeMismatch.  A and B are
\* matrices with at least one row and one column.
C4_MultiplyAndDot ==
    op.name \in {"mul", "dot"} =>
        IF A.cols = B.rows
        THEN /\ res.tag = "mat"
             /\ res.rows = A.rows
             /\ res.cols = B.cols
             /\ Len(res.data) = A.rows * B.cols
             /\ \A i \in 0..(A.rows - 1), j \in 0..(B.cols - 1) :
                    Elem(res, i, j) = ProductElem(A, B, i, j)
        ELSE ShapeMismatch(res)

\* The product of the 2x3 and the 3x2 matrix of tests::test_dot.
C4_Witness ==
    /\ op.name = "dot"
    /\ A = from_vec(2, 3, <<1, 2, 3, 4, 5, 6>>)
    /\ B = from_vec(3, 2, <<7, 8, 9, 10, 11, 12>>)
    /\ res = Mat(<<58, 64, 139, 154>>, 2, 2)

\* C5: for a square matrix of size n >= 1, det (the expansion along row 0,
\* signs alternating from +1, minors by sub_matrix(0, i)) equals the
\* determinant of the permutation formula; det(eye(n)) = 1 and
\* det([[1,2],[3,4]]) = -2.
C5_DetIsLeibniz ==
    /\ (op.name = "det" /\ A.rows = A.cols) => res = Num(LeibnizDet(A))
    /\ \A n \in 1..MaxDim : det(eye(n)) = Num(1)
    /\ det(from_vec(2, 2, <<1, 2, 3, 4>>)) = Num(-2)

\* A determinant of size >= 3 in which the terms of columns 1 and 2 count.
C5_Witness ==
    /\ op.name = "det"
    /\ A.rows = A.cols
    /\ A.rows >= 3
    /\ res.tag = "num"
    /\ res.v # 0
    /\ Elem(A, 0, 1) # 0 /\ det(sub_matrix(A, 0, 1)).v # 0
    /\ Elem(A, 0, 2) # 0 /\ det(sub_matrix(A, 0, 2)).v # 0

\* C6: for a square matrix A of any size n >= 1 with det(A) # 0, inverse(A)
\* returns adjugate(A) divided by det(A), and A * adjugate(A) = det(A) * eye(n).
\* (Fails for n = 1: cofactor calls sub_matrix, which rejects a 1x1 matrix.)
C6_InverseOfNonsingular ==
    (op.name = "inverse" /\ A.rows = A.cols /\ LeibnizDet(A) # 0) =>
        /\ res.tag = "Some"
        /\ LET adj == adjugate(A)
           IN  /\ adj.tag = "mat"
               /\ res.m = div(adj, LeibnizDet(A))
               /\ mul(A, adj) = scalar_mul(LeibnizDet(A), eye(A.rows))

\* The same statement for the sizes n >= 2, where it holds.
InverseOfNonsingularFrom2 ==
    (op.name = "inverse" /\ A.rows = A.cols /\ A.rows >= 2 /\ LeibnizDet(A) # 0) =>
        /\ res.tag = "Some"
        /\ LET adj == adjugate(A)
           IN  /\ adj.tag = "mat"
               /\ res.m = div(adj, LeibnizDet(A))
               /\ mul(A, adj) = scalar_mul(LeibnizDet(A), eye(A.rows))

\* C7: for a square matrix A, inverse(A) returns None (and neither a matrix
\* nor a panic) if det(A) = 0, and returns None only if det(A) = 0.
C7_SingularIsNone ==
    (op.name = "inverse" /\ A.rows = A.cols) =>
        (res.tag = "None" <=> LeibnizDet(A) = 0)

\* inverse of the singular matrix [[1,2,3],[4,5,6],[7,8,9]].
C7_Witness ==
    /\ op.name = "inverse"
    /\ A = from_vec(3, 3, <<1, 2, 3, 4, 5, 6, 7, 8, 9>>)
    /\ res.tag = "None"

\* C8: for a square matrix A of size n and exponents up to MaxExp,
\* pow(A, 0) = eye(n), pow(A, 1) = A, pow(A, a + b) = pow(A, a) * pow(A, b),
\* and pow(A, k) is the k-fold product of A.
C8_PowIsRepeatedProduct ==
    op.name = "pow" =>
        /\ res = RepeatedProduct(A, op.n)
        /\ op.n = 0 => res = eye(A.rows)
        /\ op.n = 1 => res = A
        /\ \A a \in 0..op.n : res = mul(pow(A, a), pow(A, op.n - a))

\* An odd exponent above 1 on a matrix whose powers differ.
C8_Witness ==
    /\ op.name = "pow"
    /\ op.n >= 3
    /\ op.n % 2 = 1
    /\ A.rows >= 2
    /\ res.tag = "mat"
    /\ res # A
    /\ res # pow(A, op.n - 1)

\* C9: for A (r x m) and B (m x c), transpose(A * B) = transpose(B) *
\* transpose(A), where transpose(X) has shape (X.cols, X.rows) and entry
\* (j, i) equal to X[i][j].
C9_TransposeOfProduct ==
    /\ (op.name = "transpose_of_mul" /\ A.cols = B.rows) =>
            res = mul(transpose(B), transpose(A))
    /\ op.name = "transpose" =>
            /\ res.tag = "mat"
            /\ res.rows = A.cols
            /\ res.cols = A.rows
            /\ Len(res.data) = A.rows * A.cols
            /\ \A i \in 0..(A.rows - 1), j \in 0..(A.cols - 1) :
                    Elem(res, j, i) = Elem(A, i, j)

\* The transposed product of two matrices that are not square.
C9_Witness ==
    /\ op.name = "transpose_of_mul"
    /\ A.rows # A.cols
    /\ B.rows # B.cols
    /\ A.cols = B.rows
    /\ A.rows # B.cols
    /\ res.tag = "mat"
    /\ \E i \in 2..Len(res.data) : res.data[i] # res.data[1]

\* C10: complex / complex and real / complex fail with DivisionByZero when the
\* divisor is zero (re^2 + im^2 = 0); otherwise the quotient is
\* ((x.re*y.re + x.im*y.im)/d, (x.im*y.re - x.re*y.im)/d) with
\* d = y.re^2 + y.im^2.  (Fails: the division is carried out and yields NaN.)
C10_ComplexDivisionByZero ==
    op.name \in {"complex_div", "f64_div_complex"} =>
        LET d == y.re * y.re + y.im * y.im
            n == IF op.name = "complex_div" THEN x ELSE Complex(op.scalar, 0)
        IN  IF d = 0 THEN DivisionByZero(res)
            ELSE res = Complex(fdiv(n.re * y.re + n.im * y.im, d),
                               fdiv(n.im * y.re - n.re * y.im, d))

\* The second half of C10 alone: the quotient by a divisor that is not zero.
ComplexDivisionByNonzero ==
    (/\ op.name \in {"complex_div", "f64_div_complex"}
     /\ y.re * y.re + y.im * y.im # 0) =>
        LET d == y.re * y.re + y.im * y.im
            n == IF op.name = "complex_div" THEN x ELSE Complex(op.scalar, 0)
        IN  res = Complex(fdiv(n.re * y.re + n.im * y.im, d),
                          fdiv(n.im * y.re - n.re * y.im, d))

====
